---------------------------- MODULE Spec2Model ----------------------------
(***************************************************************************)
(* MergeIO<R, W> (src/src/lib.rs): an adapter owning one AsyncRead `reader` *)
(* and one AsyncWrite `writer`, forwarding every AsyncRead method to the   *)
(* reader and every AsyncWrite method to the writer.                       *)
(*                                                                         *)
(* R and W are type parameters.  They are modelled as the cursors the      *)
(* crate's test and doc example merge (std::io::Cursor over a byte         *)
(* vector), driven by the condition `io` of the underlying resource at the *)
(* time of an attempt: "ready" (the attempt transfers all it can), "short" *)
(* (it transfers at most one buffer's first byte), "pending" (it reports   *)
(* Poll::Pending) or an error kind (it reports Poll::Ready(Err(kind))).    *)
(* A Cursor is the capability whose condition is always "ready".           *)
(*                                                                         *)
(* Beside the adapter the model runs the same operations directly on a     *)
(* second copy of the reader and of the writer (dR, dW), which is what the *)
(* adapter's behaviour is compared with.                                   *)
(***************************************************************************)
EXTENDS Integers, Sequences, FiniteSets, TLC

\* ------------------------------------------------------------------ bounds
\* Longest byte sequence held by the reader / handed to the write path.
MaxData == 3
\* Largest caller buffer (bytes) of one read or write attempt.
MaxBuf == 2
\* Largest pre-sized length of the writer's vector (Cursor::new(vec![0u8; n])).
MaxPre == 1
\* Number of forwarded poll attempts in one run.
MaxOps == 3

\* ----------------------------------------------------------------- helpers
Min(a, b) == IF a < b THEN a ELSE b

Max(a, b) == IF a < b THEN b ELSE a

RECURSIVE Sum(_)
Sum(s) == IF s = <<>> THEN 0 ELSE Head(s) + Sum(Tail(s))

RECURSIVE Concat(_)
Concat(ss) == IF ss = <<>> THEN <<>> ELSE Head(ss) \o Concat(Tail(ss))

Take(s, k) == SubSeq(s, 1, Min(k, Len(s)))

Drop(s, k) == SubSeq(s, Min(k, Len(s)) + 1, Len(s))

\* The first non-empty element of a list of buffer sizes, 0 when there is none.
RECURSIVE FirstNonEmptyLen(_)
FirstNonEmptyLen(bufs) ==
    IF bufs = <<>> THEN 0
    ELSE IF Head(bufs) > 0 THEN Head(bufs)
    ELSE FirstNonEmptyLen(Tail(bufs))

\* ------------------------------------------------- Poll<Result<T>> values
\* Poll::Ready(Ok(n)), Poll::Ready(Err(e)) and Poll::Pending, as returned by
\* the poll_* methods (Poll<Result<usize>>, Poll<Result<()>> with n = 0).
ReadyOk(n) == [kind |-> "Ok", n |-> n, err |-> "none"]

ReadyErr(e) == [kind |-> "Err", n |-> 0, err |-> e]

Pending == [kind |-> "Pending", n |-> 0, err |-> "none"]

\* The Initializer a reader reports, recorded like a result.
Initialized(i) == [kind |-> i, n |-> 0, err |-> "none"]

ErrorKinds == {"BrokenPipe", "TimedOut"}

\* The conditions of the resource behind an inner capability at one attempt.
IoConds == {"ready", "short", "pending"} \cup ErrorKinds

\* What an attempt reports when it transfers k bytes under condition io.
Outcome(io, k) ==
    IF io = "pending" THEN Pending
    ELSE IF io \in ErrorKinds THEN ReadyErr(io)
    ELSE ReadyOk(k)

\* ------------------------------------------------- the inner reader (R)
\* Cursor::new(data): the bytes, the read position, and the number of
\* attempts made on it.
NewReader(data) == [data |-> data, pos |-> 0, polls |-> 0]

\* Bytes an attempt with room for `room` bytes transfers under condition io.
ReadCount(r, io, room) ==
    LET avail == Len(r.data) - r.pos
    IN  IF io = "ready" THEN Min(room, avail)
        ELSE IF io = "short" THEN Min(1, Min(room, avail))
        ELSE 0

\* R::poll_read(cx, buf) with a buffer of `buf` bytes.
R_poll_read(r, io, buf) ==
    LET k == ReadCount(r, io, buf)
    IN  [st  |-> [r EXCEPT !.pos = r.pos + k, !.polls = r.polls + 1],
         ret |-> Outcome(io, k),
         out |-> SubSeq(r.data, r.pos + 1, r.pos + k)]

\* R::poll_read_vectored(cx, bufs), bufs a list of buffer sizes: a ready
\* cursor fills the buffers in turn; a short attempt is the trait's default,
\* one poll_read into the first non-empty buffer.
R_poll_read_vectored(r, io, bufs) ==
    LET room == IF io = "short" THEN FirstNonEmptyLen(bufs) ELSE Sum(bufs)
        k == ReadCount(r, io, room)
    IN  [st  |-> [r EXCEPT !.pos = r.pos + k, !.polls = r.polls + 1],
         ret |-> Outcome(io, k),
         out |-> SubSeq(r.data, r.pos + 1, r.pos + k)]

\* R::initializer(): a cursor reads into uninitialized buffers as they are.
R_initializer(r) == "nop"

\* ------------------------------------------------- the inner writer (W)
\* Cursor::new(vec![0u8; pre]): the vector, the write position, how many
\* bytes the last flush covered, whether close has completed, and the number
\* of attempts made on it.
NewWriter(pre) ==
    [buf |-> [i \in 1..pre |-> 0], pos |-> 0, flushed |-> 0,
     closed |-> FALSE, polls |-> 0]

\* The vector after writing `bytes` at position pos (overwriting, then growing).
WriteAt(buf, pos, bytes) ==
    [i \in 1..Max(Len(buf), pos + Len(bytes)) |->
        IF i > pos /\ i <= pos + Len(bytes) THEN bytes[i - pos] ELSE buf[i]]

\* The bytes of `bytes` an attempt accepts under condition io.
Accepted(io, bytes) ==
    IF io = "ready" THEN bytes
    ELSE IF io = "short" THEN Take(bytes, 1)
    ELSE <<>>

\* W::poll_write(cx, buf), buf a byte sequence.
W_poll_write(w, io, buf) ==
    LET acc == Accepted(io, buf)
    IN  [st  |-> [w EXCEPT !.buf = WriteAt(w.buf, w.pos, acc),
                           !.pos = w.pos + Len(acc),
                           !.polls = w.polls + 1],
         ret |-> Outcome(io, Len(acc))]

\* W::poll_write_vectored(cx, bufs), bufs a list of byte sequences: a ready
\* cursor accepts every buffer in turn; a short attempt accepts one byte.
W_poll_write_vectored(w, io, bufs) ==
    LET acc == Accepted(io, Concat(bufs))
    IN  [st  |-> [w EXCEPT !.buf = WriteAt(w.buf, w.pos, acc),
                           !.pos = w.pos + Len(acc),
                           !.polls = w.polls + 1],
         ret |-> Outcome(io, Len(acc))]

\* W::poll_flush(cx).
W_poll_flush(w, io) ==
    [st  |-> [w EXCEPT !.flushed = IF io \in {"ready", "short"} THEN w.pos
                                   ELSE w.flushed,
                       !.polls = w.polls + 1],
     ret |-> Outcome(io, 0)]

\* W::poll_close(cx).
W_poll_close(w, io) ==
    [st  |-> [w EXCEPT !.flushed = IF io \in {"ready", "short"} THEN w.pos
                                   ELSE w.flushed,
                       !.closed = IF io \in {"ready", "short"} THEN TRUE
                                  ELSE w.closed,
                       !.polls = w.polls + 1],
     ret |-> Outcome(io, 0)]

\* ------------------------------------------------------------- MergeIO
\* struct MergeIO<R, W> { reader: R, writer: W } and MergeIO::new.
new(r, w) == [reader |-> r, writer |-> w]

\* MergeIO::reader(&self) -> &R.
reader(self) == self.reader

\* MergeIO::writer(&self) -> &W.
writer(self) == self.writer

\* MergeIO::into_inner(self) -> (R, W).
into_inner(self) == <<self.reader, self.writer>>

\* <MergeIO as AsyncRead>::initializer.
initializer(self) == R_initializer(self.reader)

\* poll_read gone wrong: it polls the reader once to learn whether it is
\* ready and once more for the data, and hands on the second result only.
poll_read_probing(self, io, buf) ==
    LET r1 == R_poll_read(self.reader, io, buf)
        r2 == R_poll_read(r1.st, io, buf)
    IN  [self |-> [self EXCEPT !.reader = r2.st], ret |-> r2.ret, out |-> r2.out]

\* poll_read gone wrong: a read of zero bytes is taken for "not ready yet".
poll_read_zero_pending(self, io, buf) ==
    LET r == R_poll_read(self.reader, io, buf)
    IN  [self |-> [self EXCEPT !.reader = r.st],
         ret  |-> IF r.ret = ReadyOk(0) THEN Pending ELSE r.ret,
         out  |-> r.out]

\* poll_read gone wrong: the writer is flushed before every read, as a
\* stream that ties its two halves would do.
poll_read_flushing(self, io, buf) ==
    LET f == W_poll_flush(self.writer, io)
        r == R_poll_read(self.reader, io, buf)
    IN  [self |-> [self EXCEPT !.reader = r.st, !.writer = f.st],
         ret |-> r.ret, out |-> r.out]

\* <MergeIO as AsyncRead>::poll_read.
poll_read(self, io, buf) ==
    LET r == R_poll_read(self.reader, io, buf)
    IN  [self |-> [self EXCEPT !.reader = r.st], ret |-> r.ret, out |-> r.out]

\* poll_read_vectored gone wrong: an error of the reader is reported as the
\* end of the stream.
poll_read_vectored_eof_on_err(self, io, bufs) ==
    LET r == R_poll_read_vectored(self.reader, io, bufs)
    IN  [self |-> [self EXCEPT !.reader = r.st],
         ret  |-> IF r.ret.kind = "Err" THEN ReadyOk(0) ELSE r.ret,
         out  |-> r.out]

\* <MergeIO as AsyncRead>::poll_read_vectored.
poll_read_vectored(self, io, bufs) ==
    LET r == R_poll_read_vectored(self.reader, io, bufs)
    IN  [self |-> [self EXCEPT !.reader = r.st], ret |-> r.ret, out |-> r.out]

\* poll_write gone wrong: the writer's count is dropped and the length of
\* the caller's buffer reported in its place.
poll_write_full_len(self, io, buf) ==
    LET r == W_poll_write(self.writer, io, buf)
    IN  [self |-> [self EXCEPT !.writer = r.st],
         ret  |-> IF r.ret.kind = "Ok" THEN ReadyOk(Len(buf)) ELSE r.ret]

\* poll_write gone wrong: once close has completed the adapter refuses the
\* write itself instead of handing it to the writer.
poll_write_fused(self, io, buf) ==
    IF self.writer.closed
    THEN [self |-> self, ret |-> ReadyErr("BrokenPipe")]
    ELSE LET r == W_poll_write(self.writer, io, buf)
         IN  [self |-> [self EXCEPT !.writer = r.st], ret |-> r.ret]

\* <MergeIO as AsyncWrite>::poll_write.
poll_write(self, io, buf) ==
    LET r == W_poll_write(self.writer, io, buf)
    IN  [self |-> [self EXCEPT !.writer = r.st], ret |-> r.ret]

\* poll_write_vectored gone wrong: it is built on the first buffer, and
\* fails when there is none.
poll_write_vectored_first(self, io, bufs) ==
    IF bufs = <<>>
    THEN [self |-> self, ret |-> ReadyErr("BrokenPipe")]
    ELSE LET r == W_poll_write(self.writer, io, Head(bufs))
         IN  [self |-> [self EXCEPT !.writer = r.st], ret |-> r.ret]

\* <MergeIO as AsyncWrite>::poll_write_vectored.
poll_write_vectored(self, io, bufs) ==
    LET r == W_poll_write_vectored(self.writer, io, bufs)
    IN  [self |-> [self EXCEPT !.writer = r.st], ret |-> r.ret]

\* poll_flush gone wrong: it polls the reader instead of the writer.
poll_flush_reader(self, io) ==
    LET r == R_poll_read(self.reader, io, 0)
    IN  [self |-> [self EXCEPT !.reader = r.st], ret |-> Outcome(io, 0)]

\* poll_flush gone wrong: it polls the writer again until the flush is done
\* instead of reporting Pending.
poll_flush_blocking(self, io) ==
    LET r1 == W_poll_flush(self.writer, io)
        r2 == W_poll_flush(r1.st, "ready")
    IN  IF r1.ret = Pending
        THEN [self |-> [self EXCEPT !.writer = r2.st], ret |-> r2.ret]
        ELSE [self |-> [self EXCEPT !.writer = r1.st], ret |-> r1.ret]

\* <MergeIO as AsyncWrite>::poll_flush.
poll_flush(self, io) ==
    LET r == W_poll_flush(self.writer, io)
    IN  [self |-> [self EXCEPT !.writer = r.st], ret |-> r.ret]

\* poll_close gone wrong: it is not forwarded and reports success at once.
poll_close_noop(self, io) == [self |-> self, ret |-> ReadyOk(0)]

\* <MergeIO as AsyncWrite>::poll_close.
poll_close(self, io) ==
    LET r == W_poll_close(self.writer, io)
    IN  [self |-> [self EXCEPT !.writer = r.st], ret |-> r.ret]

\* ---------------------------------------------------------------- state
VARIABLES
    phase,    \* "live" while the adapter exists, then "decomposed" or "dropped"
    tio,      \* the adapter: <<MergeIO>> while live, <<>> once moved out of
    parts,    \* what into_inner returned: <<reader, writer>>, else <<>>
    dR,       \* the same reader, used directly with the same read attempts
    dW,       \* the same writer, used directly with the same write attempts
    wSample,  \* the byte sequence the caller writes through the adapter
    wRest,    \* the part of wSample no write attempt has accepted yet
    got,      \* the bytes the adapter's reads have delivered, in order
    rTask,    \* the caller's read: "pending" after an attempt that reported
              \* Pending, "resumed" after the attempt following it, else "idle"
    wTask,    \* the same for the caller's write, flush or close
    failed,   \* the channels ("read", "write") an attempt has failed on
    last      \* the last operation: name, buffers, room, result, direct result

vars == <<phase, tio, parts, dR, dW, wSample, wRest, got, rTask, wTask, failed,
          last>>

ReadOps == {"poll_read", "poll_read_vectored"}

WriteOps == {"poll_write", "poll_write_vectored", "poll_flush", "poll_close"}

\* The record of an operation: nbufs buffers with room/length cap in total,
\* the adapter's result and the result of the same call made directly.
Op(name, nbufs, cap, ret, dret) ==
    [op |-> name, nbufs |-> nbufs, cap |-> cap, ret |-> ret, dret |-> dret]

Live == phase = "live"

\* Where a caller's task stands after an attempt that reported ret.
Task(before, ret) ==
    IF ret.kind = "Pending" THEN "pending"
    ELSE IF before = "pending" THEN "resumed"
    ELSE "idle"

\* The channels that have failed once an attempt on `side` reported ret.
Failed(before, side, ret) ==
    IF ret.kind = "Err" THEN before \cup {side} ELSE before

Self == tio[1]

\* Attempts made so far on the two inner capabilities.
Polls == dR.polls + dW.polls

Bytes(k) == [i \in 1..k |-> i]

Sample(k) == [i \in 1..k |-> 10 * i]

\* let mut tio = MergeIO::new(reader, writer): over a reader that is exhausted
\* from the start or holds MaxData bytes, a writer that is an empty vector or
\* a pre-sized one, and a caller with nothing or MaxData bytes to write.
Init ==
    \E k \in {0, MaxData}, pre \in {0, MaxPre}, m \in {0, MaxData} :
        /\ phase = "live"
        /\ tio = <<new(NewReader(Bytes(k)), NewWriter(pre))>>
        /\ parts = <<>>
        /\ dR = NewReader(Bytes(k))
        /\ dW = NewWriter(pre)
        /\ wSample = Sample(m)
        /\ wRest = Sample(m)
        /\ got = <<>>
        /\ rTask = "idle"
        /\ wTask = "idle"
        /\ failed = {}
        /\ last = Op("new", 0, 0, ReadyOk(0), ReadyOk(0))

\* ---------------------------------------------------------------- actions
\* tio.initializer()
Initializer ==
    /\ Live
    /\ last' = Op("initializer", 0, 0,
                  Initialized(initializer(Self)),
                  Initialized(R_initializer(dR)))
    /\ UNCHANGED <<phase, tio, parts, dR, dW, wSample, wRest, got, rTask, wTask,
                   failed>>

\* One poll of tio.read(&mut buf), buf of any size up to MaxBuf.
PollRead ==
    /\ Live /\ Polls < MaxOps
    /\ \E io \in IoConds, buf \in 0..MaxBuf :
        LET a == poll_read(Self, io, buf)
            d == R_poll_read(dR, io, buf)
        IN  /\ tio' = <<a.self>>
            /\ dR' = d.st
            /\ got' = got \o a.out
            /\ rTask' = Task(rTask, a.ret)
            /\ failed' = Failed(failed, "read", a.ret)
            /\ last' = Op("poll_read", 1, buf, a.ret, d.ret)
    /\ UNCHANGED <<phase, parts, dW, wSample, wRest, wTask>>

\* The lists of buffer sizes a vectored read is given: none, or two buffers
\* with room for MaxBuf bytes at most.
ReadBufs ==
    {<<>>} \cup
    {bufs \in {<<a, b>> : a \in 0..MaxBuf, b \in 0..MaxBuf} :
        bufs[1] + bufs[2] <= MaxBuf}

\* One poll of tio.read_vectored(&mut bufs).
PollReadVectored ==
    /\ Live /\ Polls < MaxOps
    /\ \E io \in IoConds, bufs \in ReadBufs :
        LET a == poll_read_vectored(Self, io, bufs)
            d == R_poll_read_vectored(dR, io, bufs)
        IN  /\ tio' = <<a.self>>
            /\ dR' = d.st
            /\ got' = got \o a.out
            /\ rTask' = Task(rTask, a.ret)
            /\ failed' = Failed(failed, "read", a.ret)
            /\ last' = Op("poll_read_vectored", Len(bufs), Sum(bufs),
                          a.ret, d.ret)
    /\ UNCHANGED <<phase, parts, dW, wSample, wRest, wTask>>

\* One poll of tio.write(buf): the caller hands over a prefix of what is
\* left of wSample and keeps what the attempt did not accept.
PollWrite ==
    /\ Live /\ Polls < MaxOps
    /\ \E io \in IoConds, c \in 0..Min(MaxBuf, Len(wRest)) :
        LET buf == Take(wRest, c)
            a == poll_write(Self, io, buf)
            d == W_poll_write(dW, io, buf)
        IN  /\ tio' = <<a.self>>
            /\ dW' = d.st
            /\ wRest' = Drop(wRest, a.ret.n)
            /\ wTask' = Task(wTask, a.ret)
            /\ failed' = Failed(failed, "write", a.ret)
            /\ last' = Op("poll_write", 1, c, a.ret, d.ret)
    /\ UNCHANGED <<phase, parts, dR, wSample, got, rTask>>

\* The lists of buffers a vectored write is given: none, or a chunk of what
\* is left of wSample split in two at any place.
WriteBufs ==
    {<<>>} \cup
    {<<Take(Take(wRest, c[2]), c[1]), Drop(Take(wRest, c[2]), c[1])>> :
        c \in {x \in (0..MaxBuf) \X (0..Min(MaxBuf, Len(wRest))) :
                    x[1] <= x[2]}}

\* One poll of tio.write_vectored(bufs).
PollWriteVectored ==
    /\ Live /\ Polls < MaxOps
    /\ \E io \in IoConds, bufs \in WriteBufs :
        LET a == poll_write_vectored(Self, io, bufs)
            d == W_poll_write_vectored(dW, io, bufs)
        IN  /\ tio' = <<a.self>>
            /\ dW' = d.st
            /\ wRest' = Drop(wRest, a.ret.n)
            /\ wTask' = Task(wTask, a.ret)
            /\ failed' = Failed(failed, "write", a.ret)
            /\ last' = Op("poll_write_vectored", Len(bufs), Len(Concat(bufs)),
                          a.ret, d.ret)
    /\ UNCHANGED <<phase, parts, dR, wSample, got, rTask>>

\* One poll of tio.flush().
PollFlush ==
    /\ Live /\ Polls < MaxOps
    /\ \E io \in IoConds :
        LET a == poll_flush(Self, io)
            d == W_poll_flush(dW, io)
        IN  /\ tio' = <<a.self>>
            /\ dW' = d.st
            /\ wTask' = Task(wTask, a.ret)
            /\ failed' = Failed(failed, "write", a.ret)
            /\ last' = Op("poll_flush", 0, 0, a.ret, d.ret)
    /\ UNCHANGED <<phase, parts, dR, wSample, wRest, got, rTask>>

\* One poll of tio.close().
PollClose ==
    /\ Live /\ Polls < MaxOps
    /\ \E io \in IoConds :
        LET a == poll_close(Self, io)
            d == W_poll_close(dW, io)
        IN  /\ tio' = <<a.self>>
            /\ dW' = d.st
            /\ wTask' = Task(wTask, a.ret)
            /\ failed' = Failed(failed, "write", a.ret)
            /\ last' = Op("poll_close", 0, 0, a.ret, d.ret)
    /\ UNCHANGED <<phase, parts, dR, wSample, wRest, got, rTask>>

\* let (reader, writer) = tio.into_inner()
IntoInner ==
    /\ Live
    /\ phase' = "decomposed"
    /\ parts' = into_inner(Self)
    /\ tio' = <<>>
    /\ last' = Op("into_inner", 0, 0, ReadyOk(0), ReadyOk(0))
    /\ UNCHANGED <<dR, dW, wSample, wRest, got, rTask, wTask, failed>>

\* The adapter goes out of scope: both fields are dropped with it.
DropAdapter ==
    /\ Live
    /\ phase' = "dropped"
    /\ parts' = <<>>
    /\ tio' = <<>>
    /\ last' = Op("drop", 0, 0, ReadyOk(0), ReadyOk(0))
    /\ UNCHANGED <<dR, dW, wSample, wRest, got, rTask, wTask, failed>>

Next ==
    \/ Initializer
    \/ PollRead
    \/ PollReadVectored
    \/ PollWrite
    \/ PollWriteVectored
    \/ PollFlush
    \/ PollClose
    \/ IntoInner
    \/ DropAdapter

Spec == Init /\ [][Next]_vars

\* ------------------------------------------------------------ properties
\* The bytes a writer holds between the start of its vector and its position.
Written(w) == SubSeq(w.buf, 1, w.pos)

\* The bytes a reader has handed out so far.
Consumed(r) == SubSeq(r.data, 1, r.pos)

\* Every cell of a writer's vector past its position is an untouched 0.
TailUntouched(w) == \A i \in (w.pos + 1)..Len(w.buf) : w.buf[i] = 0

PollOps == ReadOps \cup WriteOps

\* C1: whatever way the caller splits wSample over poll_write /
\* poll_write_vectored attempts (prefixes accepted, Pending and errors retried
\* with the remainder), the writer holds exactly the accepted part of wSample,
\* in order, and nothing else: written followed by the rest is wSample.
C1_WritePathExact ==
    /\ Live =>
        /\ Written(writer(Self)) \o wRest = wSample
        /\ TailUntouched(writer(Self))
    /\ phase = "decomposed" =>
        /\ Written(parts[2]) \o wRest = wSample
        /\ TailUntouched(parts[2])

\* The whole of wSample is in the writer after three attempts, the last of
\* which completed a write that had reported Pending.
C1_Witness ==
    /\ Live
    /\ wSample # <<>> /\ wRest = <<>>
    /\ writer(Self).polls = MaxOps
    /\ wTask = "resumed"
    /\ Written(writer(Self)) = wSample

\* C2 as stated: once a read through the adapter returns 0, the bytes read
\* are exactly the reader's bytes, whatever the buffer sizes were.
C2_AsStated ==
    (Live /\ last.op \in ReadOps /\ last.ret = ReadyOk(0))
        => got = reader(Self).data

\* C2, amended: the bytes read are always the reader's bytes up to its
\* position, in order, and once a read with room for at least one byte
\* returns 0 they are all of the reader's bytes.
C2_ChunkingInvariance ==
    Live =>
        /\ got = Consumed(reader(Self))
        /\ (last.op \in ReadOps /\ last.ret = ReadyOk(0) /\ last.cap > 0)
            => got = reader(Self).data

\* A reader of MaxData bytes drained by three reads, the last returning 0
\* into a buffer with room.
C2_Witness ==
    /\ Live
    /\ last.op \in ReadOps /\ last.ret = ReadyOk(0) /\ last.cap > 0
    /\ Len(got) = MaxData
    /\ got = reader(Self).data

\* C3: a read operation (poll_read, poll_read_vectored, initializer) leaves
\* the writer as it was and a write-side operation (poll_write,
\* poll_write_vectored, poll_flush, poll_close) leaves the reader as it was;
\* the result of a read is that of the same read on a reader no write was
\* ever applied to, and the writer is the one no read was ever applied to.
C3_Frame ==
    (Live /\ Live') =>
        /\ (last'.op \in ReadOps \cup {"initializer"}) =>
            /\ writer(Self)' = writer(Self)
            /\ last'.ret = last'.dret
            /\ writer(Self)' = dW'
        /\ (last'.op \in WriteOps) =>
            /\ reader(Self)' = reader(Self)
            /\ last'.ret = last'.dret
            /\ reader(Self)' = dR'

C3_Independent == [][C3_Frame]_vars

\* A read delivers bytes after the writer has accepted some, and the writer
\* still holds exactly those.
C3_Witness ==
    /\ Live
    /\ last.op \in ReadOps /\ last.ret.kind = "Ok" /\ last.ret.n > 0
    /\ writer(Self).pos > 0
    /\ writer(Self).polls > 0 /\ reader(Self).polls > 0

\* C4: into_inner returns (reader, writer), in that order, in the states the
\* same operations leave the reader and the writer in when applied to them
\* directly, and every operation returned what the direct call returned.
C4_RoundTrip ==
    /\ last.ret = last.dret
    /\ Live => into_inner(Self) = <<dR, dW>>
    /\ phase = "decomposed" => parts = <<dR, dW>>

\* Decomposed after both channels moved their cursors.
C4_Witness ==
    /\ phase = "decomposed"
    /\ parts[1].pos > 0
    /\ parts[2].pos > 0

\* Every attempt the caller can make is open to it.
AnyPollEnabled ==
    /\ ENABLED PollRead
    /\ ENABLED PollReadVectored
    /\ ENABLED PollWrite
    /\ ENABLED PollWriteVectored
    /\ ENABLED PollFlush
    /\ ENABLED PollClose

\* C5: an error of the inner capability is returned as it is, after the one
\* inner attempt that produced it, and leaves the adapter alive; once a read
\* has failed every write-side operation still does what the writer does,
\* once a write has failed every read still does what the reader does, and
\* decomposing after a failure hands back both parts as direct use left them.
C5_Step ==
    /\ (Live /\ last'.op \in PollOps /\ last'.dret.kind = "Err") =>
        /\ last'.ret = last'.dret
        /\ Live'
        /\ reader(Self)'.polls + writer(Self)'.polls
            = reader(Self).polls + writer(Self).polls + 1
    /\ (Live /\ "read" \in failed /\ last'.op \in WriteOps) =>
        /\ last'.ret = last'.dret
        /\ writer(Self)' = dW'
    /\ (Live /\ "write" \in failed /\ last'.op \in ReadOps) =>
        /\ last'.ret = last'.dret
        /\ reader(Self)' = dR'
    /\ (Live /\ failed # {} /\ last'.op = "into_inner") =>
        parts' = <<dR, dW>>

\* After a failure the adapter can be decomposed and every operation, the
\* failed one included, can be attempted again.
C5_Usable ==
    (Live /\ failed # {}) =>
        /\ ENABLED IntoInner
        /\ Polls < MaxOps => AnyPollEnabled

C5_ErrorsVerbatim == [][C5_Step]_vars /\ []C5_Usable

\* Both channels have failed once and a retried read then delivers bytes.
C5_Witness ==
    /\ Live
    /\ failed = {"read", "write"}
    /\ last.op \in ReadOps /\ last.ret.kind = "Ok" /\ last.ret.n > 0

\* C6: an adapter poll makes exactly one attempt on the matching inner
\* capability and none on the other, reports Pending exactly when that
\* attempt reported Pending and the attempt's value otherwise; a poll that
\* follows a Pending one completes with the inner capability's result.
C6_Step ==
    (Live /\ Live') =>
        /\ (last'.op \in ReadOps) =>
            /\ reader(Self)'.polls = reader(Self).polls + 1
            /\ writer(Self)'.polls = writer(Self).polls
        /\ (last'.op \in WriteOps) =>
            /\ writer(Self)'.polls = writer(Self).polls + 1
            /\ reader(Self)'.polls = reader(Self).polls
        /\ (last'.op \in PollOps) =>
            /\ (last'.ret = Pending) <=> (last'.dret = Pending)
            /\ (last'.dret # Pending) => last'.ret = last'.dret
        /\ (last'.op \in ReadOps /\ rTask = "pending" /\ last'.dret # Pending)
            => (rTask' = "resumed" /\ last'.ret = last'.dret)
        /\ (last'.op \in WriteOps /\ wTask = "pending" /\ last'.dret # Pending)
            => (wTask' = "resumed" /\ last'.ret = last'.dret)

C6_ReadinessRelayed == [][C6_Step]_vars

\* A read that reported Pending is polled again and delivers bytes.
C6_Witness ==
    /\ Live
    /\ rTask = "resumed"
    /\ last.op \in ReadOps /\ last.ret.kind = "Ok" /\ last.ret.n > 0

VectoredOps == {"poll_read_vectored", "poll_write_vectored"}

\* C8 as stated: a vectored read or write given no buffers completes with
\* zero bytes and no error.
C8_AsStated ==
    (Live /\ last.op \in VectoredOps /\ last.nbufs = 0)
        => last.ret = ReadyOk(0)

\* A capability's state apart from the count of attempts made on it.
Observable(c) == [c EXCEPT !.polls = 0]

\* C8, amended: a vectored read or write given no buffers transfers no byte
\* and leaves the reader and the writer as they were; it reports zero bytes
\* and no error whenever the inner capability completes, and otherwise the
\* inner capability's own Pending or error.
C8_Step ==
    (Live /\ Live' /\ last'.op \in VectoredOps /\ last'.nbufs = 0) =>
        /\ last'.ret = last'.dret
        /\ last'.ret.n = 0
        /\ last'.dret.kind = "Ok" => last'.ret = ReadyOk(0)
        /\ Observable(reader(Self)') = Observable(reader(Self))
        /\ Observable(writer(Self)') = Observable(writer(Self))
        /\ got' = got
        /\ wRest' = wRest

C8_ZeroBuffers == [][C8_Step]_vars

\* A vectored write given no buffers returned 0 while bytes were left to
\* write and the writer already held some.
C8_Witness ==
    /\ Live
    /\ last.op = "poll_write_vectored" /\ last.nbufs = 0
    /\ last.ret = ReadyOk(0)
    /\ wRest # <<>>
    /\ writer(Self).pos > 0

C10_Step ==
    /\ (phase' # phase) =>
        (phase = "live" /\ last'.op \in {"into_inner", "drop"})
    /\ (Live /\ Live' /\ last'.op \in WriteOps) =>
        /\ writer(Self)'.polls = writer(Self).polls + 1
        /\ last'.ret = last'.dret
        /\ writer(Self)' = dW'
    /\ (Live /\ Live' /\ last'.op \in ReadOps) =>
        /\ reader(Self)'.polls = reader(Self).polls + 1
        /\ last'.ret = last'.dret
        /\ reader(Self)' = dR'

C10_State ==
    /\ Live <=> Len(tio) = 1
    /\ Live =>
        /\ DOMAIN Self = {"reader", "writer"}
        /\ ENABLED IntoInner /\ ENABLED DropAdapter
        /\ Polls < MaxOps => AnyPollEnabled
    /\ ~Live => ~ENABLED Next

C10_SingleLiveState == [][C10_Step]_vars /\ []C10_State

\* A write made after close completed is accepted by the writer.
C10_Witness ==
    /\ Live
    /\ writer(Self).closed
    /\ last.op = "poll_write" /\ last.ret.kind = "Ok" /\ last.ret.n > 0

=============================================================================
